---------------------------- MODULE Spec2Model ----------------------------
(***************************************************************************)
(* Motor control firmware (sketch_jan13a.ino, Arduino Uno R3): the serial  *)
(* command dispatcher, the single-slot timed-move scheduler, the EEPROM    *)
(* calibration store and the sensor poll, as one state machine.            *)
(*                                                                         *)
(* Text is modelled as sequences of one-character strings, so that the     *)
(* line reader, trim, strtok, atoi and the integer printer are computed    *)
(* character by character as the firmware computes them.                   *)
(***************************************************************************)
EXTENDS Integers, Sequences, FiniteSets, TLC

(***************************************************************************)
(* Integer widths.  int is 16 bits on the ATmega328P.  unsigned long is    *)
(* 32 bits there; the model checker's integers are 32-bit signed, so the   *)
(* model keeps unsigned long arithmetic modular at a narrower width,       *)
(* LongBits, wide enough for every time value the model uses.              *)
(***************************************************************************)
IntBits == 16
LongBits == 24
IntMod == 2 ^ IntBits
LongMod == 2 ^ LongBits

\* A value narrowed to the platform's signed int (two's complement).
ToInt(n) == LET m == n % IntMod IN IF m >= IntMod \div 2 THEN m - IntMod ELSE m

\* A value converted to unsigned long.
ToULong(n) == n % LongMod

\* Division truncating toward zero, as C's / on signed operands.
CDiv(a, b) ==
  LET q == (IF a < 0 THEN -a ELSE a) \div (IF b < 0 THEN -b ELSE b)
  IN IF (a < 0) = (b < 0) THEN q ELSE -q

(***************************************************************************)
(* Characters and C string helpers.                                        *)
(***************************************************************************)
NL == "\n"
COLON == ":"
\* The null pointer strtok returns when no token is left.
NULL == <<"<null>">>

DigitChars == <<"0", "1", "2", "3", "4", "5", "6", "7", "8", "9">>
IsDigit(c) == \E i \in 1..10 : DigitChars[i] = c
DigitVal(c) == (CHOOSE i \in 1..10 : DigitChars[i] = c) - 1

\* isspace()
IsSpace(c) == c \in {" ", "\t", "\n", "\r", "\f"}

RECURSIVE SkipSpace(_)
SkipSpace(s) ==
  IF s # <<>> /\ IsSpace(Head(s)) THEN SkipSpace(Tail(s)) ELSE s

RECURSIVE DropTrailingSpace(_)
DropTrailingSpace(s) ==
  IF s # <<>> /\ IsSpace(s[Len(s)])
  THEN DropTrailingSpace(SubSeq(s, 1, Len(s) - 1))
  ELSE s

\* String::trim(): leading and trailing whitespace removed.
trim(s) == DropTrailingSpace(SkipSpace(s))

\* String::toCharArray(buf, size): at most size - 1 characters are copied.
toCharArray(s, size) ==
  IF Len(s) > size - 1 THEN SubSeq(s, 1, size - 1) ELSE s

\* The token helper of the dispatcher: trailing CR, LF, space, tab removed;
\* a null token is left alone.
RECURSIVE stripTrailing(_)
stripTrailing(s) ==
  IF s = NULL THEN NULL
  ELSE IF s # <<>> /\ s[Len(s)] \in {"\r", "\n", " ", "\t"}
  THEN stripTrailing(SubSeq(s, 1, Len(s) - 1))
  ELSE s

\* strtok(buf, ":") called to exhaustion: the maximal runs of characters
\* other than the delimiter, in order; empty fields are skipped.
RECURSIVE strtok(_, _, _)
strtok(s, cur, acc) ==
  IF s = <<>> THEN (IF cur = <<>> THEN acc ELSE Append(acc, cur))
  ELSE IF Head(s) = COLON
  THEN strtok(Tail(s), <<>>, IF cur = <<>> THEN acc ELSE Append(acc, cur))
  ELSE strtok(Tail(s), Append(cur, Head(s)), acc)

Tokens(buf) == strtok(buf, <<>>, <<>>)

\* The i-th strtok result: the token, or NULL once the buffer is used up.
Tok(toks, i) == IF i <= Len(toks) THEN toks[i] ELSE NULL

\* The digits at the front of s accumulated into acc, modulo m.
RECURSIVE Digits(_, _, _)
Digits(s, acc, m) ==
  IF s # <<>> /\ IsDigit(Head(s))
  THEN Digits(Tail(s), (acc * 10 + DigitVal(Head(s))) % m, m)
  ELSE acc

\* The magnitude and sign read by atoi/atol: leading whitespace, an
\* optional sign, then digits; anything else ends the number.
SignedDigits(s, m) ==
  LET t == SkipSpace(s)
      neg == t # <<>> /\ Head(t) = "-"
      u == IF t # <<>> /\ Head(t) \in {"-", "+"} THEN Tail(t) ELSE t
      n == Digits(u, 0, m)
  IN IF neg THEN -n ELSE n

\* atoi(): the result is an int; the accumulator wraps at the int width.
atoi(s) == ToInt(SignedDigits(s, IntMod))

\* atol() assigned to an unsigned long.
atol(s) == ToULong(SignedDigits(s, LongMod))

\* Serial.print(int): the decimal text of n.
RECURSIVE PrintNat(_)
PrintNat(n) ==
  IF n < 10 THEN <<DigitChars[n + 1]>>
  ELSE Append(PrintNat(n \div 10), DigitChars[(n % 10) + 1])

PrintInt(n) == IF n < 0 THEN <<"-">> \o PrintNat(-n) ELSE PrintNat(n)

(***************************************************************************)
(* The text literals of the sketch.                                        *)
(***************************************************************************)
T_MOTOR_CMD == <<"M", "O", "T", "O", "R", "_", "C", "M", "D">>
T_SET_SPEED == <<"S", "E", "T", "_", "S", "P", "E", "E", "D">>
T_SET_OUTPUT == <<"S", "E", "T", "_", "O", "U", "T", "P", "U", "T">>
T_GET_CAL == <<"G", "E", "T", "_", "C", "A", "L">>
T_SET_CAL == <<"S", "E", "T", "_", "C", "A", "L">>
T_PIN_TEST == <<"P", "I", "N", "_", "T", "E", "S", "T">>
T_MOVE_TIME == <<"M", "O", "V", "E", "_", "T", "I", "M", "E">>
T_MOVE_DIST == <<"M", "O", "V", "E", "_", "D", "I", "S", "T">>
T_TURN == <<"T", "U", "R", "N">>
T_CALIBRATE == <<"C", "A", "L", "I", "B", "R", "A", "T", "E">>
T_TRACK_SUN == <<"T", "R", "A", "C", "K", "_", "S", "U", "N">>
T_TEST_MOTOR == <<"T", "E", "S", "T", "_", "M", "O", "T", "O", "R">>
T_SENSOR_REPORT == <<"S", "E", "N", "S", "O", "R", "_", "R", "E", "P", "O", "R", "T">>
T_FWD == <<"F", "W", "D">>
T_REV == <<"R", "E", "V">>
T_STOP == <<"S", "T", "O", "P">>
T_HOME == <<"H", "O", "M", "E">>
T_MS_PER_MM == <<"M", "S", "_", "P", "E", "R", "_", "M", "M">>
T_MS_PER_DEG == <<"M", "S", "_", "P", "E", "R", "_", "D", "E", "G">>
T_MOTORS == <<"M", "O", "T", "O", "R", "S">>
T_SENSORS == <<"S", "E", "N", "S", "O", "R", "S">>
T_ON == <<"O", "N">>
T_OFF == <<"O", "F", "F">>
T_STAR == <<"*">>
T_CMD_RCVD == <<"C", "M", "D", "_", "R", "C", "V", "D", ":">>
T_CAL_MM == <<"C", "A", "L", ":", "M", "S", "_", "P", "E", "R", "_", "M", "M", ":">>
T_CAL_DEG == <<":", "M", "S", "_", "P", "E", "R", "_", "D", "E", "G", ":">>
T_SET_CAL_MM == <<"S", "E", "T", "_", "C", "A", "L", ":", "M", "S", "_", "P", "E", "R", "_", "M", "M", ":">>
T_SET_CAL_DEG == <<"S", "E", "T", "_", "C", "A", "L", ":", "M", "S", "_", "P", "E", "R", "_", "D", "E", "G", ":">>
T_ERR_KEY == <<"E", "R", "R", "O", "R", ":", "U", "n", "k", "n", "o", "w", "n", " ", "c", "a", "l", "i", "b", "r", "a", "t", "i", "o", "n", " ", "k", "e", "y">>
T_ERR_FORMAT == <<"E", "R", "R", "O", "R", ":", "S", "E", "T", "_", "C", "A", "L", " ", "i", "n", "v", "a", "l", "i", "d", " ", "f", "o", "r", "m", "a", "t">>
T_PIN_TEST_OK == <<"P", "I", "N", "_", "T", "E", "S", "T", ":", "O", "K">>
T_SENSOR_REPORT_ == <<"S", "E", "N", "S", "O", "R", "_", "R", "E", "P", "O", "R", "T", ":">>
T_ACK == <<"A", "C", "K", ":">>
T_NACK == <<"N", "A", "C", "K", ":", "S", "E", "N", "S", "O", "R", "_", "R", "E", "P", "O", "R", "T", ":">>
T_NONE == <<"<", "n", "o", "n", "e", ">">>
T_INVALID == <<"I", "n", "v", "a", "l", "i", "d", " ", "C", "o", "m", "m", "a", "n", "d", ":">>
T_INFO_DIST == <<"I", "N", "F", "O", ":", "M", "O", "V", "E", "_", "D", "I", "S", "T", " ", "f", "o", "r", " ", "m", "o", "t", "o", "r", " ">>
T_INFO_TURN == <<"I", "N", "F", "O", ":", "T", "U", "R", "N", " ", "f", "o", "r", " ", "m", "o", "t", "o", "r", " ">>
T_BY == <<" ", "b", "y", " ">>
T_MM == <<"m", "m">>
T_DEGREES == <<" ", "d", "e", "g", "r", "e", "e", "s", ".">>
T_INFO_HOMING == <<"I", "N", "F", "O", ":", "H", "o", "m", "i", "n", "g", " ", "f", "o", "r", " ", "m", "o", "t", "o", "r", " ">>
T_NOT_IMPL == <<" ", "n", "o", "t", " ", "y", "e", "t", " ", "i", "m", "p", "l", "e", "m", "e", "n", "t", "e", "d", ".">>
T_INFO_TESTING == <<"I", "N", "F", "O", ":", "T", "e", "s", "t", "i", "n", "g", " ", "m", "o", "t", "o", "r", " ">>
T_INFO_TEST_DONE == <<"I", "N", "F", "O", ":", "T", "e", "s", "t", " ", "c", "o", "m", "p", "l", "e", "t", "e", ".">>
T_SENSOR_STATE == <<"S", "E", "N", "S", "O", "R", "_", "S", "T", "A", "T", "E", ":">>
T_INFO_CAL_M1 == <<"I", "N", "F", "O", ":", "S", "t", "a", "r", "t", "i", "n", "g", " ", "m", "o", "t", "o", "r", " ", "c", "a", "l", "i", "b", "r", "a", "t", "i", "o", "n", ".", ".", ".">>
T_INFO_CAL_M2 == <<"I", "N", "F", "O", ":", "M", "o", "t", "o", "r", " ", "c", "a", "l", "i", "b", "r", "a", "t", "i", "o", "n", " ", "c", "o", "m", "p", "l", "e", "t", "e", ".">>
T_INFO_CAL_S1 == <<"I", "N", "F", "O", ":", "S", "t", "a", "r", "t", "i", "n", "g", " ", "s", "e", "n", "s", "o", "r", " ", "c", "a", "l", "i", "b", "r", "a", "t", "i", "o", "n", ".", ".", ".">>
T_INFO_CAL_S2 == <<"I", "N", "F", "O", ":", "P", "l", "e", "a", "s", "e", " ", "c", "o", "v", "e", "r", " ", "l", "i", "g", "h", "t", " ", "s", "e", "n", "s", "o", "r", "s", " ", "n", "o", "w", ".">>
T_INFO_CAL_S3 == <<"I", "N", "F", "O", ":", "P", "l", "e", "a", "s", "e", " ", "e", "x", "p", "o", "s", "e", " ", "l", "i", "g", "h", "t", " ", "s", "e", "n", "s", "o", "r", "s", " ", "t", "o", " ", "b", "r", "i", "g", "h", "t", " ", "l", "i", "g", "h", "t", ".">>
T_INFO_CAL_S4 == <<"I", "N", "F", "O", ":", "S", "e", "n", "s", "o", "r", " ", "c", "a", "l", "i", "b", "r", "a", "t", "i", "o", "n", " ", "c", "o", "m", "p", "l", "e", "t", "e", ".">>
T_INFO_SUN == <<"I", "N", "F", "O", ":", "S", "u", "n", " ", "t", "r", "a", "c", "k", "i", "n", "g", " ", "c", "h", "e", "c", "k", ".", " ", "L", ":">>
T_SUN_R == <<" ", "R", ":">>
T_STATUS == <<"S", "T", "A", "T", "U", "S", ":", "A", "r", "d", "u", "i", "n", "o", " ", "R", "e", "a", "d", "y", ".", " ", "C", "A", "L", ":", "M", "S", "_", "P", "E", "R", "_", "M", "M", ":">>
\* Serial.print(float): two decimals of the parsed value; the model keeps no
\* floating point and prints a placeholder for it.
T_FLOAT == <<"<float>">>

(***************************************************************************)
(* Pins, levels and program constants.                                     *)
(***************************************************************************)
HIGH == 1
LOW == 0
ENA == 5
IN1 == 7
IN2 == 8
ENB == 6
IN3 == 9
IN4 == 11
SENSOR_PIN_1 == 2
SENSOR_PIN_2 == 3
FEEDBACK_MOTOR_PIN_FWD == 12
FEEDBACK_MOTOR_PIN_REV == 13
EEPROM_ADDR_MS_PER_MM == 0
EEPROM_ADDR_MS_PER_DEG == 4
SENSOR_CHECK_INTERVAL == 250
\* The size of the dispatcher's two character buffers.
CMD_BUF_SIZE == 200
\* An erased EEPROM cell reads all ones: -1 as an int.
EEPROM_ERASED == -1

DigitalPins == {IN1, IN2, IN3, IN4, FEEDBACK_MOTOR_PIN_FWD, FEEDBACK_MOTOR_PIN_REV}
PwmPins == {ENA, ENB}
SensorPins == {SENSOR_PIN_1, SENSOR_PIN_2}

(***************************************************************************)
(* Bounds of the model.                                                    *)
(***************************************************************************)
\* Between two runs of loop() the millisecond clock moves by ClockStep.
ClockStep == 100
\* The clock is followed up to MaxClock, and through the WrapLead
\* milliseconds before it wraps to 0.
MaxClock == 500
WrapLead == 200
\* A host that sends lines back to back has at most MaxPending unread lines
\* on the wire and in the UART.
MaxPending == 2
\* The UART may hand over the first FragLen bytes of what is on the wire.
FragLen == 6
MaxSendAt == 100
MaxSpeedAt == 200

(***************************************************************************)
(* State.                                                                  *)
(***************************************************************************)
VARIABLES
  inputString,            \* String inputString
  stringComplete,         \* bool stringComplete
  motor_speeds,           \* int motor_speeds[2]
  ms_per_mm,              \* int ms_per_mm
  ms_per_deg,             \* int ms_per_deg
  sensor_report_enabled,  \* bool sensor_report_enabled
  move_timer_start,       \* unsigned long move_timer_start
  move_duration,          \* unsigned long move_duration
  timed_move_motor_id,    \* int timed_move_motor_id
  last_sensor_check,      \* unsigned long last_sensor_check
  sensor1_last_state,     \* int sensor1_last_state
  sensor2_last_state,     \* int sensor2_last_state
  io,                     \* the output pins: digital levels, PWM duties, driven inputs,
                          \* motors seen with both direction pins HIGH
  eeprom,                 \* the EEPROM cells of the two calibration values
  clock,                  \* millis()
  rx,                     \* the bytes Serial.available() reports
  wire,                   \* bytes the host has written that have not arrived
  level,                  \* the electrical level at each sensor pin
  pc,                     \* the position of the control loop
  crashed,                \* the control loop has stopped running
  ub,                     \* the last dispatch read through a null token
  out,                    \* the lines the last step printed
  last                    \* the last line dispatched and what it found

vars == <<inputString, stringComplete, motor_speeds, ms_per_mm, ms_per_deg,
          sensor_report_enabled, move_timer_start, move_duration,
          timed_move_motor_id, last_sensor_check, sensor1_last_state,
          sensor2_last_state, io, eeprom, clock, rx, wire, level, pc,
          crashed, ub, out, last>>

\* The firmware's state as one value, for the operators below.
Cur ==
  [inputString |-> inputString, stringComplete |-> stringComplete,
   motor_speeds |-> motor_speeds, ms_per_mm |-> ms_per_mm,
   ms_per_deg |-> ms_per_deg,
   sensor_report_enabled |-> sensor_report_enabled,
   move_timer_start |-> move_timer_start, move_duration |-> move_duration,
   timed_move_motor_id |-> timed_move_motor_id,
   last_sensor_check |-> last_sensor_check,
   sensor1_last_state |-> sensor1_last_state,
   sensor2_last_state |-> sensor2_last_state,
   io |-> io, eeprom |-> eeprom, clock |-> clock, ub |-> FALSE,
   out |-> <<>>, last |-> last]

\* The state an operator returned becomes the next state.
Commit(S) ==
  /\ inputString' = S.inputString
  /\ stringComplete' = S.stringComplete
  /\ motor_speeds' = S.motor_speeds
  /\ ms_per_mm' = S.ms_per_mm
  /\ ms_per_deg' = S.ms_per_deg
  /\ sensor_report_enabled' = S.sensor_report_enabled
  /\ move_timer_start' = S.move_timer_start
  /\ move_duration' = S.move_duration
  /\ timed_move_motor_id' = S.timed_move_motor_id
  /\ last_sensor_check' = S.last_sensor_check
  /\ sensor1_last_state' = S.sensor1_last_state
  /\ sensor2_last_state' = S.sensor2_last_state
  /\ io' = S.io
  /\ eeprom' = S.eeprom
  /\ clock' = S.clock
  /\ ub' = S.ub
  /\ out' = S.out
  /\ last' = S.last

\* What `last` holds when no line has been dispatched since boot.
NoLine == [toks |-> <<>>, at |-> 0, prev |-> -1]

(***************************************************************************)
(* Hardware access.                                                        *)
(***************************************************************************)
\* millis()
millis(S) == S.clock

\* Serial.println(line), and the Serial.print calls that build the line.
println(S, line) == [S EXCEPT !.out = Append(@, line)]

\* delay(ms): the loop does nothing else while the clock moves on.
delay(S, ms) == [S EXCEPT !.clock = ToULong(@ + ms)]

\* The motors whose two direction pins are HIGH at the levels dig.
BothHigh(dig) ==
  { id \in {0, 1} : IF id = 0 THEN dig[IN1] = HIGH /\ dig[IN2] = HIGH
                              ELSE dig[IN3] = HIGH /\ dig[IN4] = HIGH }

\* digitalWrite(pin, val): any non-LOW value drives the pin HIGH.  The pins
\* change one write at a time: io.both keeps the motors whose two direction
\* pins have been HIGH together after some write since power-on.  On a PWM
\* pin it ends the PWM output and drives the pin fully off or on.  A sensor
\* pin made an output reads back what was written.
digitalWrite(S, pin, val) ==
  LET v == IF val = LOW THEN LOW ELSE HIGH IN
  IF pin \in DigitalPins
  THEN LET dig == [S.io.dig EXCEPT ![pin] = v]
       IN [S EXCEPT !.io.dig = dig, !.io.both = @ \cup BothHigh(dig)]
  ELSE IF pin \in PwmPins THEN [S EXCEPT !.io.pwm[pin] = IF v = LOW THEN 0 ELSE 255]
  ELSE IF pin \in SensorPins THEN [S EXCEPT !.io.drv[pin] = v]
  ELSE S

\* analogWrite(pin, val): the duty value handed to the PWM output.
analogWrite(S, pin, val) ==
  IF pin \in PwmPins THEN [S EXCEPT !.io.pwm[pin] = val] ELSE S

\* digitalRead(pin) of a sensor pin, lv being the levels at the pins.
digitalRead(S, lv, pin) ==
  IF S.io.drv[pin] # -1 THEN S.io.drv[pin] ELSE lv[pin]

\* map with the quotient taken to the nearest integer.
mapNearest(x, in_min, in_max, out_min, out_max) ==
  IF in_max = in_min THEN out_min
  ELSE CDiv(2 * (x - in_min) * (out_max - out_min) + (in_max - in_min),
            2 * (in_max - in_min)) + out_min

\* map(x, in_min, in_max, out_min, out_max), computed in long.
map(x, in_min, in_max, out_min, out_max) ==
  IF in_max = in_min THEN out_min
  ELSE CDiv((x - in_min) * (out_max - out_min), in_max - in_min) + out_min

(***************************************************************************)
(* Motor control.                                                          *)
(***************************************************************************)
\* runMotor with motor 1's speed written to motor 0's PWM pin.
runMotorCrossed(S, id, forward) ==
  IF id = 0 THEN
    analogWrite(
      digitalWrite(digitalWrite(S, IN1, IF forward THEN HIGH ELSE LOW),
                   IN2, IF forward THEN LOW ELSE HIGH),
      ENA, S.motor_speeds[0])
  ELSE IF id = 1 THEN
    analogWrite(
      digitalWrite(digitalWrite(S, IN3, IF forward THEN HIGH ELSE LOW),
                   IN4, IF forward THEN LOW ELSE HIGH),
      ENA, S.motor_speeds[1])
  ELSE S

runMotor(S, id, forward) ==
  IF id = 0 THEN
    analogWrite(
      digitalWrite(digitalWrite(S, IN1, IF forward THEN HIGH ELSE LOW),
                   IN2, IF forward THEN LOW ELSE HIGH),
      ENA, S.motor_speeds[0])
  ELSE IF id = 1 THEN
    analogWrite(
      digitalWrite(digitalWrite(S, IN3, IF forward THEN HIGH ELSE LOW),
                   IN4, IF forward THEN LOW ELSE HIGH),
      ENB, S.motor_speeds[1])
  ELSE S

\* stopMotor that also cancels a timed move of the motor it stops.
stopMotorCancels(S, id) ==
  LET S1 == IF S.timed_move_motor_id = id
            THEN [S EXCEPT !.timed_move_motor_id = -1] ELSE S
  IN IF id = 0 THEN
       analogWrite(digitalWrite(digitalWrite(S1, IN1, LOW), IN2, LOW), ENA, 0)
     ELSE IF id = 1 THEN
       analogWrite(digitalWrite(digitalWrite(S1, IN3, LOW), IN4, LOW), ENB, 0)
     ELSE S1

stopMotor(S, id) ==
  IF id = 0 THEN
    analogWrite(digitalWrite(digitalWrite(S, IN1, LOW), IN2, LOW), ENA, 0)
  ELSE IF id = 1 THEN
    analogWrite(digitalWrite(digitalWrite(S, IN3, LOW), IN4, LOW), ENB, 0)
  ELSE S

homeMotor(S, id) ==
  println(S, T_INFO_HOMING \o PrintInt(id) \o T_NOT_IMPL)

\* startTimedMove that first stops the motor of the move it replaces.
startTimedMoveStopsOld(S, id, forward, duration) ==
  runMotor([stopMotor(S, S.timed_move_motor_id)
              EXCEPT !.timed_move_motor_id = id,
                     !.move_duration = duration,
                     !.move_timer_start = millis(S)],
           id, forward)

startTimedMove(S, id, forward, duration) ==
  runMotor([S EXCEPT !.timed_move_motor_id = id,
                     !.move_duration = duration,
                     !.move_timer_start = millis(S)],
           id, forward)

\* updateTimedMove that stops the motor and leaves the slot as it is.
updateTimedMoveStuck(S) ==
  IF S.timed_move_motor_id # -1
     /\ ToULong(millis(S) - S.move_timer_start) >= S.move_duration
  THEN stopMotor(S, S.timed_move_motor_id)
  ELSE S

\* updateTimedMove with the clock compared with the time of the deadline.
updateTimedMoveDeadline(S) ==
  IF S.timed_move_motor_id # -1
     /\ millis(S) >= ToULong(S.move_timer_start + S.move_duration)
  THEN [stopMotor(S, S.timed_move_motor_id) EXCEPT !.timed_move_motor_id = -1]
  ELSE S

\* updateTimedMove with the deadline test > in place of >=.
updateTimedMoveLate(S) ==
  IF S.timed_move_motor_id # -1
     /\ ToULong(millis(S) - S.move_timer_start) > S.move_duration
  THEN [stopMotor(S, S.timed_move_motor_id) EXCEPT !.timed_move_motor_id = -1]
  ELSE S

updateTimedMove(S) ==
  IF S.timed_move_motor_id # -1
     /\ ToULong(millis(S) - S.move_timer_start) >= S.move_duration
  THEN [stopMotor(S, S.timed_move_motor_id) EXCEPT !.timed_move_motor_id = -1]
  ELSE S

testMotor(S, id) ==
  println(
    stopMotor(
      delay(runMotor(println(S, T_INFO_TESTING \o PrintInt(id)), id, TRUE), 250),
      id),
    T_INFO_TEST_DONE)

\* moveMotorDistance and turnMotor differ in the INFO line only.
blockingMove(S, id, info) ==
  LET S1 == println(S, info)
      S2 == digitalWrite(digitalWrite(S1, FEEDBACK_MOTOR_PIN_FWD, HIGH),
                         FEEDBACK_MOTOR_PIN_REV, LOW)
      S3 == delay(runMotor(S2, id, TRUE), 250)
      S4 == stopMotor(S3, id)
  IN digitalWrite(digitalWrite(S4, FEEDBACK_MOTOR_PIN_FWD, LOW),
                  FEEDBACK_MOTOR_PIN_REV, LOW)

moveMotorDistance(S, id) ==
  blockingMove(S, id, T_INFO_DIST \o PrintInt(id) \o T_BY \o T_FLOAT \o T_MM)

turnMotor(S, id) ==
  blockingMove(S, id, T_INFO_TURN \o PrintInt(id) \o T_BY \o T_FLOAT \o T_DEGREES)

(***************************************************************************)
(* Sensors and calibration.                                                *)
(***************************************************************************)
\* updateSensorStates with sensor 2 compared with sensor 1's last state.
updateSensorStatesMixed(S, lv) ==
  IF ToULong(millis(S) - S.last_sensor_check) >= SENSOR_CHECK_INTERVAL THEN
    LET S0 == [S EXCEPT !.last_sensor_check = millis(S)]
        current_state1 == digitalRead(S0, lv, SENSOR_PIN_1)
        S1 == IF current_state1 # S0.sensor1_last_state
              THEN println([S0 EXCEPT !.sensor1_last_state = current_state1],
                           T_SENSOR_STATE \o PrintInt(SENSOR_PIN_1) \o <<COLON>>
                             \o PrintInt(current_state1))
              ELSE S0
        current_state2 == digitalRead(S1, lv, SENSOR_PIN_2)
    IN IF current_state2 # S1.sensor1_last_state
       THEN println([S1 EXCEPT !.sensor2_last_state = current_state2],
                    T_SENSOR_STATE \o PrintInt(SENSOR_PIN_2) \o <<COLON>>
                      \o PrintInt(current_state2))
       ELSE S1
  ELSE S

updateSensorStates(S, lv) ==
  IF ToULong(millis(S) - S.last_sensor_check) >= SENSOR_CHECK_INTERVAL THEN
    LET S0 == [S EXCEPT !.last_sensor_check = millis(S)]
        current_state1 == digitalRead(S0, lv, SENSOR_PIN_1)
        S1 == IF current_state1 # S0.sensor1_last_state
              THEN println([S0 EXCEPT !.sensor1_last_state = current_state1],
                           T_SENSOR_STATE \o PrintInt(SENSOR_PIN_1) \o <<COLON>>
                             \o PrintInt(current_state1))
              ELSE S0
        current_state2 == digitalRead(S1, lv, SENSOR_PIN_2)
    IN IF current_state2 # S1.sensor2_last_state
       THEN println([S1 EXCEPT !.sensor2_last_state = current_state2],
                    T_SENSOR_STATE \o PrintInt(SENSOR_PIN_2) \o <<COLON>>
                      \o PrintInt(current_state2))
       ELSE S1
  ELSE S

calibrateMotors(S) ==
  println(delay(println(S, T_INFO_CAL_M1), 2000), T_INFO_CAL_M2)

calibrateSensors(S) ==
  println(
    delay(println(delay(println(println(S, T_INFO_CAL_S1), T_INFO_CAL_S2), 3000),
                  T_INFO_CAL_S3),
          3000),
    T_INFO_CAL_S4)

\* trackSun(), left_val and right_val being the two analogRead results.
trackSun(S, left_val, right_val) ==
  LET S1 == println(S, T_INFO_SUN \o PrintInt(left_val) \o T_SUN_R
                         \o PrintInt(right_val))
      error == left_val - right_val
      tolerance == 50
  IN IF (IF error < 0 THEN -error ELSE error) > tolerance
     THEN stopMotor(delay(runMotor(S1, 0, error > 0), 50), 0)
     ELSE S1

\* The globals as their initialisers leave them at power-on; the EEPROM
\* keeps its cells.
PowerOn(cells) ==
  [inputString |-> <<>>, stringComplete |-> FALSE,
   motor_speeds |-> [i \in {0, 1} |-> 255],
   ms_per_mm |-> 50, ms_per_deg |-> 10,
   sensor_report_enabled |-> TRUE,
   move_timer_start |-> 0, move_duration |-> 0, timed_move_motor_id |-> -1,
   last_sensor_check |-> 0,
   sensor1_last_state |-> -1, sensor2_last_state |-> -1,
   io |-> [dig |-> [p \in DigitalPins |-> LOW],
           pwm |-> [p \in PwmPins |-> 0],
           drv |-> [p \in SensorPins |-> -1],
           both |-> {}],
   eeprom |-> cells, clock |-> 0, ub |-> FALSE, out |-> <<>>, last |-> NoLine]

setup(S) ==
  LET mm == S.eeprom[EEPROM_ADDR_MS_PER_MM]
      deg == S.eeprom[EEPROM_ADDR_MS_PER_DEG]
      S1 == [S EXCEPT !.ms_per_mm = IF mm <= 0 THEN 50 ELSE mm,
                      !.ms_per_deg = IF deg <= 0 THEN 10 ELSE deg]
      S2 == stopMotor(stopMotor(S1, 0), 1)
  IN println(S2, T_STATUS \o PrintInt(S2.ms_per_mm) \o T_CAL_DEG
                   \o PrintInt(S2.ms_per_deg))

(***************************************************************************)
(* Serial input and the command dispatcher.                                *)
(***************************************************************************)
\* The read loop of handleSerialCommands and of serialEvent: every available
\* byte is consumed; a newline sets stringComplete, any other byte is
\* appended to inputString.
RECURSIVE readSerial(_, _)
readSerial(S, bytes) ==
  IF bytes = <<>> THEN S
  ELSE IF Head(bytes) = NL
  THEN readSerial([S EXCEPT !.stringComplete = TRUE], Tail(bytes))
  ELSE readSerial([S EXCEPT !.inputString = Append(@, Head(bytes))], Tail(bytes))

serialEvent(S, bytes) == readSerial(S, bytes)

\* The tokens a command's branch hands to atoi, atol, atof or strcmp
\* without a null check, by position in the line (1 is the command).
Required(command) ==
  IF command \in {T_MOTOR_CMD, T_SET_SPEED, T_SET_OUTPUT, T_MOVE_DIST, T_TURN}
  THEN {2, 3}
  ELSE IF command = T_MOVE_TIME THEN {2, 3, 4}
  ELSE IF command \in {T_CALIBRATE, T_TEST_MOTOR} THEN {2}
  ELSE {}

\* Whether dispatching toks reads through a null pointer.
NullRead(toks) ==
  /\ toks # <<>>
  /\ \E i \in Required(stripTrailing(toks[1])) : Tok(toks, i) = NULL

\* The branch of handleSerialCommands for one line's tokens.  garbage is
\* what a read through a null token finds at address 0; left_val and
\* right_val are the analogRead results TRACK_SUN gets.
dispatch(S, toks, garbage, left_val, right_val) ==
  LET command == stripTrailing(Tok(toks, 1))
      Arg(i) == IF Tok(toks, i) = NULL THEN garbage ELSE Tok(toks, i)
  IN
  IF command = NULL THEN S
  ELSE IF command = T_MOTOR_CMD THEN
    LET id == atoi(Arg(2))
        sub_cmd == Arg(3)
    IN IF sub_cmd = T_FWD THEN runMotor(S, id, TRUE)
       ELSE IF sub_cmd = T_REV THEN runMotor(S, id, FALSE)
       ELSE IF sub_cmd = T_STOP THEN stopMotor(S, id)
       ELSE IF sub_cmd = T_HOME THEN homeMotor(S, id)
       ELSE S
  ELSE IF command = T_SET_SPEED THEN
    LET id_str == Arg(2)
        speed_percent == atoi(Arg(3))
        speed_val == ToInt(map(speed_percent, 0, 100, 0, 255))
    IN IF id_str = T_STAR
       THEN [S EXCEPT !.motor_speeds = [i \in {0, 1} |-> speed_val]]
       ELSE LET id == atoi(id_str)
            IN IF id >= 0 /\ id < 2
               THEN [S EXCEPT !.motor_speeds[id] = speed_val]
               ELSE S
  ELSE IF command = T_SET_OUTPUT THEN
    digitalWrite(S, atoi(Arg(2)), atoi(Arg(3)))
  ELSE IF command = T_GET_CAL THEN
    println(S, T_CAL_MM \o PrintInt(S.ms_per_mm) \o T_CAL_DEG
                 \o PrintInt(S.ms_per_deg))
  ELSE IF command = T_SET_CAL THEN
    LET key == Tok(toks, 2)
        val == Tok(toks, 3)
    IN IF key # NULL /\ val # NULL THEN
         LET v == atoi(val) IN
         IF key = T_MS_PER_MM THEN
           println([S EXCEPT !.ms_per_mm = v,
                             !.eeprom[EEPROM_ADDR_MS_PER_MM] = v],
                   T_SET_CAL_MM \o PrintInt(v))
         ELSE IF key = T_MS_PER_DEG THEN
           println([S EXCEPT !.ms_per_deg = v,
                             !.eeprom[EEPROM_ADDR_MS_PER_DEG] = v],
                   T_SET_CAL_DEG \o PrintInt(v))
         ELSE println(S, T_ERR_KEY)
       ELSE println(S, T_ERR_FORMAT)
  ELSE IF command = T_PIN_TEST THEN
    LET prevENA == S.motor_speeds[0]
        prevENB == S.motor_speeds[1]
        S1 == analogWrite(analogWrite(S, ENA, 0), ENB, 0)
        S2 == digitalWrite(digitalWrite(digitalWrite(digitalWrite(
                S1, IN1, HIGH), IN2, LOW), IN3, HIGH), IN4, LOW)
        S3 == delay(S2, 200)
        S4 == digitalWrite(digitalWrite(digitalWrite(digitalWrite(
                S3, IN1, LOW), IN2, LOW), IN3, LOW), IN4, LOW)
        S5 == println(S4, T_PIN_TEST_OK)
    IN analogWrite(analogWrite(S5, ENA, prevENA), ENB, prevENB)
  ELSE IF command = T_MOVE_TIME THEN
    LET id == atoi(Arg(2))
        dir == Arg(3)
        duration == atol(Arg(4))
    IN startTimedMove(S, id, dir = T_FWD, duration)
  ELSE IF command = T_MOVE_DIST THEN moveMotorDistance(S, atoi(Arg(2)))
  ELSE IF command = T_TURN THEN turnMotor(S, atoi(Arg(2)))
  ELSE IF command = T_CALIBRATE THEN
    LET type == Arg(2)
    IN IF type = T_MOTORS THEN calibrateMotors(S)
       ELSE IF type = T_SENSORS THEN calibrateSensors(S)
       ELSE S
  ELSE IF command = T_TRACK_SUN THEN trackSun(S, left_val, right_val)
  ELSE IF command = T_TEST_MOTOR THEN testMotor(S, atoi(Arg(2)))
  ELSE IF command = T_SENSOR_REPORT THEN
    LET mode == stripTrailing(Tok(toks, 2))
    IN IF mode # NULL /\ (mode = T_ON \/ mode = T_OFF) THEN
         println(
           println([S EXCEPT !.sensor_report_enabled = (mode = T_ON)],
                   T_SENSOR_REPORT_ \o (IF mode = T_ON THEN T_ON ELSE T_OFF)),
           T_ACK \o T_SENSOR_REPORT)
       ELSE println(S, T_NACK \o (IF mode # NULL THEN mode ELSE T_NONE))
  ELSE println(S, T_INVALID \o command)

\* The echo of a completed line: inputString trimmed, printed after CMD_RCVD:.
echoLine(S) ==
  println(S, T_CMD_RCVD \o toCharArray(trim(S.inputString), CMD_BUF_SIZE))

\* What the dispatcher notes about the line it handled: its tokens and, for
\* a MOVE_TIME, the clock and the scheduler slot it found.
Noted(S, toks) ==
  IF toks # <<>> /\ stripTrailing(toks[1]) = T_MOVE_TIME
  THEN [toks |-> toks, at |-> millis(S), prev |-> S.timed_move_motor_id]
  ELSE [toks |-> toks, at |-> 0, prev |-> -1]

\* handleSerialCommands with the timed-move check run before it returns.
handleSerialCommandsEager(S, bytes, garbage, left_val, right_val) ==
  LET S1 == readSerial(S, bytes) IN
  IF S1.stringComplete THEN
    LET S2 == echoLine(S1)
        toks == Tokens(toCharArray(trim(S1.inputString), CMD_BUF_SIZE))
        S3 == updateTimedMove(dispatch(S2, toks, garbage, left_val, right_val))
    IN [S3 EXCEPT !.inputString = <<>>, !.stringComplete = FALSE,
                  !.ub = NullRead(toks), !.last = Noted(S2, toks)]
  ELSE S1

\* handleSerialCommands with the echo printed after the dispatch.
handleSerialCommandsEchoLast(S, bytes, garbage, left_val, right_val) ==
  LET S1 == readSerial(S, bytes) IN
  IF S1.stringComplete THEN
    LET toks == Tokens(toCharArray(trim(S1.inputString), CMD_BUF_SIZE))
        S2 == dispatch(S1, toks, garbage, left_val, right_val)
        S3 == echoLine([S2 EXCEPT !.inputString = S1.inputString])
    IN [S3 EXCEPT !.inputString = <<>>, !.stringComplete = FALSE,
                  !.ub = NullRead(toks), !.last = Noted(S1, toks)]
  ELSE S1

\* handleSerialCommands with a dispatch that never writes the reporting flag.
handleSerialCommandsFlagKept(S, bytes, garbage, left_val, right_val) ==
  LET S1 == readSerial(S, bytes) IN
  IF S1.stringComplete THEN
    LET S2 == echoLine(S1)
        toks == Tokens(toCharArray(trim(S1.inputString), CMD_BUF_SIZE))
        S3 == dispatch(S2, toks, garbage, left_val, right_val)
    IN [S3 EXCEPT !.inputString = <<>>, !.stringComplete = FALSE,
                  !.ub = NullRead(toks), !.last = Noted(S2, toks),
                  !.sensor_report_enabled = S.sensor_report_enabled]
  ELSE S1

\* handleSerialCommands(): read what is available; when a newline was seen,
\* echo, parse and dispatch inputString, then clear it.
handleSerialCommands(S, bytes, garbage, left_val, right_val) ==
  LET S1 == readSerial(S, bytes) IN
  IF S1.stringComplete THEN
    LET S2 == echoLine(S1)
        toks == Tokens(toCharArray(trim(S1.inputString), CMD_BUF_SIZE))
        S3 == dispatch(S2, toks, garbage, left_val, right_val)
    IN [S3 EXCEPT !.inputString = <<>>, !.stringComplete = FALSE,
                  !.ub = NullRead(toks), !.last = Noted(S2, toks)]
  ELSE S1

\* The state in which a read through a null token stops the program: the
\* line was read and echoed, nothing after the fault ran.
faulted(S, bytes) ==
  LET S1 == readSerial(S, bytes)
      toks == Tokens(toCharArray(trim(S1.inputString), CMD_BUF_SIZE))
  IN [echoLine(S1) EXCEPT !.ub = TRUE, !.last = Noted(S1, toks)]

(***************************************************************************)
(* The environment: the host's lines, the UART, the sensors, the power.    *)
(***************************************************************************)
\* Fields joined by the protocol's delimiter.
RECURSIVE Join(_)
Join(fields) ==
  IF Len(fields) = 1 THEN fields[1]
  ELSE fields[1] \o <<COLON>> \o Join(Tail(fields))

N0 == <<"0">>
N1 == <<"1">>

\* Timed moves on either motor, in either direction, one of no duration,
\* and one whose id is the scheduler's "no move" value.
MoveLines ==
  { Join(<<T_MOVE_TIME, N0, T_FWD, <<"3", "0", "0">> >>),
    Join(<<T_MOVE_TIME, N1, T_REV, <<"1", "0", "0">> >>),
    Join(<<T_MOVE_TIME, N1, T_FWD, <<"0">> >>),
    Join(<<T_MOVE_TIME, <<"-", "1">>, T_FWD, <<"1", "0", "0">> >>) }

\* Short well-formed lines a host sends back to back.
ParseLines ==
  { T_GET_CAL,
    Join(<<T_MOTOR_CMD, N1, T_FWD>>),
    Join(<<T_MOTOR_CMD, N0, T_STOP>>) }

\* One line with too few fields for each command that takes arguments, and
\* one complete line.
ShortLines ==
  { T_GET_CAL,
    T_MOTOR_CMD,
    Join(<<T_SET_SPEED, N0>>),
    Join(<<T_SET_OUTPUT, <<"7">> >>),
    Join(<<T_MOVE_TIME, N0, T_FWD>>),
    Join(<<T_MOVE_DIST, N0>>),
    T_TURN,
    T_CALIBRATE,
    T_TEST_MOTOR }

\* Percentages inside 0..100 and outside of it.
Percents ==
  { <<"0">>, <<"1">>, <<"5", "0">>, <<"1", "0", "0">>,
    <<"2", "0", "0">>, <<"-", "1", "0">> }

\* Speed settings for one motor or for both, and commands that run a motor.
SpeedLines ==
  { Join(<<T_SET_SPEED, id, p>>) : id \in {N0, N1, T_STAR}, p \in Percents }
    \cup { Join(<<T_MOTOR_CMD, N0, T_FWD>>), Join(<<T_MOTOR_CMD, N1, T_REV>>) }

\* Calibration values that are positive, zero, negative, not a number and
\* beyond an int, and the query.
CalLines ==
  { T_GET_CAL,
    Join(<<T_SET_CAL, T_MS_PER_MM, <<"6", "0">> >>),
    Join(<<T_SET_CAL, T_MS_PER_DEG, <<"1", "2">> >>),
    Join(<<T_SET_CAL, T_MS_PER_MM, <<"0">> >>),
    Join(<<T_SET_CAL, T_MS_PER_DEG, <<"-", "5">> >>),
    Join(<<T_SET_CAL, T_MS_PER_DEG, <<"a", "b", "c">> >>),
    Join(<<T_SET_CAL, T_MS_PER_MM, <<"4", "0", "0", "0", "0">> >>) }

\* The two settings of the sensor reporting flag.
SensorLines ==
  { Join(<<T_SENSOR_REPORT, T_OFF>>), Join(<<T_SENSOR_REPORT, T_ON>>) }

\* The reporting flag set, cleared, given an unknown mode and no mode, and a
\* command that changes the pins.
ReportLines ==
  SensorLines
    \cup { Join(<<T_SENSOR_REPORT, <<"M", "A", "Y", "B", "E">> >>),
           T_SENSOR_REPORT,
           Join(<<T_MOTOR_CMD, N0, T_FWD>>) }

\* Each motor run forward, in reverse and stopped, a speed other than the
\* default, and the pin test.
MotorLines ==
  { Join(<<T_MOTOR_CMD, id, sub>>) : id \in {N0, N1},
                                     sub \in {T_FWD, T_REV, T_STOP} }
    \cup { Join(<<T_SET_SPEED, N0, <<"5", "0">> >>), T_PIN_TEST }

\* A recognized line ending in a carriage return, an unrecognized line, a
\* line short of arguments and an empty line.
EchoLines ==
  { T_GET_CAL \o <<"\r">>,
    <<"H", "E", "L", "L", "O">>,
    T_MOTOR_CMD,
    <<>> }

\* A timed move and the commands that hold the loop in a delay.
BlockLines ==
  { Join(<<T_MOVE_TIME, N0, T_FWD, <<"3", "0", "0">> >>),
    Join(<<T_MOVE_DIST, N1, <<"1", "0">> >>),
    Join(<<T_TURN, N0, <<"9", "0">> >>),
    Join(<<T_TEST_MOTOR, N1>>),
    T_PIN_TEST }

\* A timed move of motor 0, and motor 0 and motor 1 driven by hand.
StaleLines ==
  { Join(<<T_MOVE_TIME, N0, T_FWD, <<"3", "0", "0">> >>),
    Join(<<T_MOTOR_CMD, N0, T_STOP>>),
    Join(<<T_MOTOR_CMD, N0, T_REV>>),
    Join(<<T_MOTOR_CMD, N1, T_STOP>>) }

\* The commands that drive the direction pins, SET_OUTPUT left out: motors
\* run by hand both ways and stopped, a timed move, and the commands that
\* run a motor inside their handler.
PinLines ==
  { Join(<<T_MOTOR_CMD, N0, T_FWD>>),
    Join(<<T_MOTOR_CMD, N0, T_REV>>),
    Join(<<T_MOTOR_CMD, N0, T_STOP>>),
    Join(<<T_MOTOR_CMD, N1, T_REV>>),
    Join(<<T_MOVE_TIME, N1, T_FWD, <<"1", "0", "0">> >>),
    Join(<<T_MOVE_DIST, N0, <<"1", "0">> >>),
    Join(<<T_TURN, N1, <<"9", "0">> >>),
    Join(<<T_TEST_MOTOR, N1>>),
    T_TRACK_SUN,
    T_PIN_TEST }

\* Timed moves of 300 ms, of 100 ms and of no duration.
WrapLines ==
  { Join(<<T_MOVE_TIME, N0, T_FWD, <<"3", "0", "0">> >>),
    Join(<<T_MOVE_TIME, N1, T_REV, <<"1", "0", "0">> >>),
    Join(<<T_MOVE_TIME, N1, T_FWD, <<"0">> >>) }

\* What a read through a null pointer may find at address 0.
GarbageText == { <<>>, N1, T_FWD }

\* The analogRead results TRACK_SUN may get.
LdrSamples == { 100, 200 }

NewLines(s) == Cardinality({i \in 1..Len(s) : s[i] = NL})

\* The host writes line l, having fewer than pending unread lines out.  What
\* the host writes is seen by the firmware only once delivered, so the model
\* lets it write at the top of loop().
HostSend(l, pending) ==
  /\ pc = "serial"
  /\ NewLines(wire) + NewLines(rx) + (IF stringComplete THEN 1 ELSE 0) < pending
  /\ wire' = wire \o l \o <<NL>>
  /\ UNCHANGED <<inputString, stringComplete, motor_speeds, ms_per_mm,
                 ms_per_deg, sensor_report_enabled, move_timer_start,
                 move_duration, timed_move_motor_id, last_sensor_check,
                 sensor1_last_state, sensor2_last_state, io, eeprom, clock,
                 rx, level, pc, crashed, ub, out, last>>

\* A host that has said all it has to say by the time `until`.
HostSendEarly(l, pending, until) ==
  /\ clock <= until
  /\ HostSend(l, pending)

\* The first k bytes on the wire arrive in the UART.  Arrival shows only
\* where the firmware reads: in handleSerialCommands and in serialEvent.
Arrive(k) ==
  /\ pc \in {"serial", "event"}
  /\ k >= 1
  /\ k <= Len(wire)
  /\ rx' = rx \o SubSeq(wire, 1, k)
  /\ wire' = SubSeq(wire, k + 1, Len(wire))
  /\ UNCHANGED <<inputString, stringComplete, motor_speeds, ms_per_mm,
                 ms_per_deg, sensor_report_enabled, move_timer_start,
                 move_duration, timed_move_motor_id, last_sensor_check,
                 sensor1_last_state, sensor2_last_state, io, eeprom, clock,
                 level, pc, crashed, ub, out, last>>

\* All that is on the wire arrives.
Deliver == Arrive(Len(wire))

\* Only the next FragLen bytes arrive.
DeliverPart == Len(wire) > FragLen /\ Arrive(FragLen)

\* A sensor's switch opens or closes.
SensorChange ==
  /\ pc = "sensor"
  /\ \E p \in SensorPins : level' = [level EXCEPT ![p] = 1 - @]
  /\ UNCHANGED <<inputString, stringComplete, motor_speeds, ms_per_mm,
                 ms_per_deg, sensor_report_enabled, move_timer_start,
                 move_duration, timed_move_motor_id, last_sensor_check,
                 sensor1_last_state, sensor2_last_state, io, eeprom, clock,
                 rx, wire, pc, crashed, ub, out, last>>

\* Power-on or reset: the globals are initialised, setup() runs, the UART
\* is empty; the EEPROM keeps what was stored.
PowerCycle ==
  /\ Commit(setup(PowerOn(eeprom)))
  /\ rx' = <<>>
  /\ pc' = "serial"
  /\ crashed' = FALSE
  /\ UNCHANGED <<wire, level>>

(***************************************************************************)
(* The control loop: loop() calls handleSerialCommands, updateTimedMove    *)
(* and updateSensorStates; the Arduino core then runs serialEvent when     *)
(* bytes are available, and calls loop() again.                            *)
(***************************************************************************)
\* The tokens of the line handleSerialCommands would dispatch now.
PendingTokens ==
  Tokens(toCharArray(trim(readSerial(Cur, rx).inputString), CMD_BUF_SIZE))

\* The clock values the model follows.
Followed(c) == IF c <= MaxClock THEN TRUE ELSE c >= LongMod - WrapLead

HandleSerial ==
  /\ pc = "serial"
  /\ ~crashed
  /\ \E garbage \in (IF NullRead(PendingTokens) THEN GarbageText ELSE {<<>>}),
        l \in (IF Tok(PendingTokens, 1) = T_TRACK_SUN THEN LdrSamples ELSE {0}),
        r \in (IF Tok(PendingTokens, 1) = T_TRACK_SUN THEN LdrSamples ELSE {0}) :
       LET R == handleSerialCommands(Cur, rx, garbage, l, r) IN
       /\ Followed(R.clock)
       /\ \/ Commit(R) /\ crashed' = FALSE
          \/ R.ub /\ Commit(faulted(Cur, rx)) /\ crashed' = TRUE
  /\ rx' = <<>>
  /\ pc' = "timed"
  /\ UNCHANGED <<wire, level>>

UpdateTimedMove ==
  /\ pc = "timed"
  /\ ~crashed
  /\ Commit(updateTimedMove(Cur))
  /\ pc' = "sensor"
  /\ UNCHANGED <<rx, wire, level, crashed>>

UpdateSensorStates ==
  /\ pc = "sensor"
  /\ ~crashed
  /\ Commit(updateSensorStates(Cur, level))
  /\ pc' = "event"
  /\ UNCHANGED <<rx, wire, level, crashed>>

SerialEventRun ==
  /\ pc = "event"
  /\ ~crashed
  /\ Commit(IF rx # <<>> THEN serialEvent(Cur, rx) ELSE Cur)
  /\ rx' = <<>>
  /\ pc' = "tick"
  /\ UNCHANGED <<wire, level, crashed>>

\* loop() is called again, ClockStep milliseconds after the last call.
Tick ==
  /\ pc = "tick"
  /\ ~crashed
  /\ Followed(ToULong(clock + ClockStep))
  /\ clock' = ToULong(clock + ClockStep)
  /\ pc' = "serial"
  /\ UNCHANGED <<inputString, stringComplete, motor_speeds, ms_per_mm,
                 ms_per_deg, sensor_report_enabled, move_timer_start,
                 move_duration, timed_move_motor_id, last_sensor_check,
                 sensor1_last_state, sensor2_last_state, io, eeprom,
                 rx, wire, level, crashed, ub, out, last>>

\* loop() has run with nothing to do for a poll interval.
Wait ==
  /\ pc = "tick"
  /\ ~crashed
  /\ clock + SENSOR_CHECK_INTERVAL <= MaxClock
  /\ clock' = ToULong(clock + SENSOR_CHECK_INTERVAL)
  /\ pc' = "serial"
  /\ UNCHANGED <<inputString, stringComplete, motor_speeds, ms_per_mm,
                 ms_per_deg, sensor_report_enabled, move_timer_start,
                 move_duration, timed_move_motor_id, last_sensor_check,
                 sensor1_last_state, sensor2_last_state, io, eeprom,
                 rx, wire, level, crashed, ub, out, last>>

\* loop() is called again within the same millisecond.
LoopAgain ==
  /\ pc = "tick"
  /\ ~crashed
  /\ pc' = "serial"
  /\ UNCHANGED <<inputString, stringComplete, motor_speeds, ms_per_mm,
                 ms_per_deg, sensor_report_enabled, move_timer_start,
                 move_duration, timed_move_motor_id, last_sensor_check,
                 sensor1_last_state, sensor2_last_state, io, eeprom, clock,
                 rx, wire, level, crashed, ub, out, last>>

\* One pass of the loop body.
Loop ==
  \/ HandleSerial
  \/ UpdateTimedMove
  \/ UpdateSensorStates
  \/ SerialEventRun

\* The first power-on: setup() has run on an erased EEPROM.
Init ==
  LET S == setup(PowerOn([a \in {EEPROM_ADDR_MS_PER_MM, EEPROM_ADDR_MS_PER_DEG}
                            |-> EEPROM_ERASED]))
  IN /\ inputString = S.inputString
     /\ stringComplete = S.stringComplete
     /\ motor_speeds = S.motor_speeds
     /\ ms_per_mm = S.ms_per_mm
     /\ ms_per_deg = S.ms_per_deg
     /\ sensor_report_enabled = S.sensor_report_enabled
     /\ move_timer_start = S.move_timer_start
     /\ move_duration = S.move_duration
     /\ timed_move_motor_id = S.timed_move_motor_id
     /\ last_sensor_check = S.last_sensor_check
     /\ sensor1_last_state = S.sensor1_last_state
     /\ sensor2_last_state = S.sensor2_last_state
     /\ io = S.io
     /\ eeprom = S.eeprom
     /\ clock = S.clock
     /\ ub = S.ub
     /\ out = S.out
     /\ last = S.last
     /\ rx = <<>>
     /\ wire = <<>>
     /\ level = [p \in SensorPins |-> HIGH]
     /\ pc = "serial"
     /\ crashed = FALSE

\* The firmware under a host that sends timed moves, one line at a time,
\* while the clock runs.
NextMove ==
  \/ \E l \in MoveLines : HostSend(l, 1)
  \/ Deliver
  \/ Loop
  \/ Tick

SpecMove == Init /\ [][NextMove]_vars

\* The firmware under a host that sends lines back to back and a UART that
\* hands them over in pieces.
NextParse ==
  \/ \E l \in ParseLines : HostSendEarly(l, MaxPending, MaxSendAt)
  \/ Deliver
  \/ DeliverPart
  \/ Loop
  \/ Tick

SpecParse == Init /\ [][NextParse]_vars

\* The firmware under a host whose lines may be short of arguments.
NextShort ==
  \/ \E l \in ShortLines : HostSendEarly(l, 1, MaxSendAt)
  \/ Deliver
  \/ Loop
  \/ Tick

SpecShort == Init /\ [][NextShort]_vars

\* The firmware under a host that sets speeds and runs motors.
NextSpeed ==
  \/ \E l \in SpeedLines : HostSendEarly(l, 1, MaxSpeedAt)
  \/ Deliver
  \/ Loop
  \/ Tick

SpecSpeed == Init /\ [][NextSpeed]_vars

\* The firmware under a host that calibrates, with resets in between.
NextCal ==
  \/ \E l \in CalLines : HostSend(l, 1)
  \/ Deliver
  \/ Loop
  \/ LoopAgain
  \/ PowerCycle

SpecCal == Init /\ [][NextCal]_vars

\* The firmware under a host that switches sensor reporting, with switches
\* that open and close.
NextSensor ==
  \/ \E l \in SensorLines : HostSend(l, 1)
  \/ Deliver
  \/ SensorChange
  \/ Loop
  \/ Tick

SpecSensor == Init /\ [][NextSensor]_vars

\* The firmware under a host that sends SENSOR_REPORT in all its forms.
NextReport ==
  \/ \E l \in ReportLines : HostSend(l, 1)
  \/ Deliver
  \/ Loop
  \/ Tick

SpecReport == Init /\ [][NextReport]_vars

\* The firmware under a host that drives the motors by hand and tests pins.
NextMotor ==
  \/ \E l \in MotorLines : HostSendEarly(l, 1, MaxSpeedAt)
  \/ Deliver
  \/ Loop
  \/ Tick

SpecMotor == Init /\ [][NextMotor]_vars

\* The firmware under a host whose lines are of every kind, back to back.
NextEcho ==
  \/ \E l \in EchoLines : HostSendEarly(l, MaxPending, MaxSendAt)
  \/ Deliver
  \/ DeliverPart
  \/ Loop
  \/ Tick

SpecEcho == Init /\ [][NextEcho]_vars

\* The firmware polling its sensors, whose switches open and close, over
\* several poll intervals and across resets.
NextPoll ==
  \/ \E l \in SensorLines : HostSend(l, 1)
  \/ Deliver
  \/ SensorChange
  \/ Loop
  \/ Tick
  \/ Wait
  \/ PowerCycle

SpecPoll == Init /\ [][NextPoll]_vars

\* The firmware under a host that sends blocking commands during timed moves.
NextBlock ==
  \/ \E l \in BlockLines : HostSend(l, 1)
  \/ Deliver
  \/ Loop
  \/ Tick

SpecBlock == Init /\ [][NextBlock]_vars

\* The firmware under a host that stops and restarts a motor by hand during
\* its timed move.
NextStale ==
  \/ \E l \in StaleLines : HostSend(l, 1)
  \/ Deliver
  \/ Loop
  \/ Tick

SpecStale == Init /\ [][NextStale]_vars

\* The firmware under a host that drives the motors by every command but
\* SET_OUTPUT.
NextPins ==
  \/ \E l \in PinLines : HostSendEarly(l, 1, MaxSpeedAt)
  \/ Deliver
  \/ Loop
  \/ Tick

SpecPins == Init /\ [][NextPins]_vars

\* The firmware at the top of loop() after it has run idle since power-on
\* until WrapLead milliseconds before the millisecond counter wraps: the
\* sensors were polled in the pass before and read HIGH.
InitWrap ==
  LET S == setup(PowerOn([a \in {EEPROM_ADDR_MS_PER_MM, EEPROM_ADDR_MS_PER_DEG}
                            |-> EEPROM_ERASED]))
  IN /\ inputString = S.inputString
     /\ stringComplete = S.stringComplete
     /\ motor_speeds = S.motor_speeds
     /\ ms_per_mm = S.ms_per_mm
     /\ ms_per_deg = S.ms_per_deg
     /\ sensor_report_enabled = S.sensor_report_enabled
     /\ move_timer_start = S.move_timer_start
     /\ move_duration = S.move_duration
     /\ timed_move_motor_id = S.timed_move_motor_id
     /\ last_sensor_check = LongMod - WrapLead - ClockStep
     /\ sensor1_last_state = HIGH
     /\ sensor2_last_state = HIGH
     /\ io = S.io
     /\ eeprom = S.eeprom
     /\ clock = LongMod - WrapLead
     /\ ub = S.ub
     /\ out = <<>>
     /\ last = S.last
     /\ rx = <<>>
     /\ wire = <<>>
     /\ level = [p \in SensorPins |-> HIGH]
     /\ pc = "serial"
     /\ crashed = FALSE

\* The firmware under a host that sends timed moves while the millisecond
\* counter wraps.
NextWrap ==
  \/ \E l \in WrapLines : HostSend(l, 1)
  \/ Deliver
  \/ Loop
  \/ Tick

SpecWrap == InitWrap /\ [][NextWrap]_vars

\* loop() goes on from one of its statements to the next.
Advances ==
  \/ pc = "serial" /\ pc' = "timed"
  \/ pc = "timed" /\ pc' = "sensor"
  \/ pc = "sensor" /\ pc' = "event"
  \/ pc = "event" /\ pc' = "tick"

\* The firmware under a host that starts timed moves early on.  loop() is
\* called again and again and the millisecond clock moves on: the loop does
\* not stay at a statement for ever, nor the clock at a value it can leave.
NextLive ==
  \/ \E l \in MoveLines : HostSendEarly(l, 1, MaxSendAt)
  \/ Deliver
  \/ Loop
  \/ Tick

SpecLive == Init /\ [][NextLive]_vars /\ WF_pc(Advances) /\ WF_vars(Tick)
(***************************************************************************)
(* Properties.                                                             *)
(***************************************************************************)
\* The line README.md promises after a move.
T_MOVE_DONE == <<"M", "O", "V", "E", "_", "D", "O", "N", "E", ":">>

IsPrefix(p, s) == Len(p) <= Len(s) /\ SubSeq(s, 1, Len(p)) = p

\* The lines of `lines` that start with `tag`.
Tagged(lines, tag) == {i \in 1..Len(lines) : IsPrefix(tag, lines[i])}

\* updateTimedMove has run since the clock last moved or a line was dispatched.
Ticked == pc \in {"sensor", "event", "tick"}

\* handleSerialCommands has just dispatched a line: it printed the echo.
Dispatched == pc = "timed" /\ Tagged(out, T_CMD_RCVD) # {}

\* The last line dispatched was a complete MOVE_TIME:<id>:<dir>:<d>.
LastIsMove == Len(last.toks) = 4 /\ last.toks[1] = T_MOVE_TIME
LastId == atoi(last.toks[2])
LastFwd == last.toks[3] = T_FWD
LastDuration == atol(last.toks[4])
\* Milliseconds since that line was dispatched, as the firmware computes them.
SinceLast == ToULong(clock - last.at)

\* The two direction pins and the PWM pin of motor id.
DirPins(id) == IF id = 0 THEN <<IN1, IN2>> ELSE <<IN3, IN4>>
EnPin(id) == IF id = 0 THEN ENA ELSE ENB

Running(id, forward) ==
  /\ io.dig[DirPins(id)[1]] = (IF forward THEN HIGH ELSE LOW)
  /\ io.dig[DirPins(id)[2]] = (IF forward THEN LOW ELSE HIGH)
  /\ io.pwm[EnPin(id)] = motor_speeds[id]

Stopped(id) ==
  /\ io.dig[DirPins(id)[1]] = LOW
  /\ io.dig[DirPins(id)[2]] = LOW
  /\ io.pwm[EnPin(id)] = 0

\* C1: the scheduler tick that takes the slot from Active to Idle prints
\* exactly one line, MOVE_DONE:<id>, and every other tick prints no
\* MOVE_DONE line.
C1_MoveDoneAtCompletion ==
  [][(pc = "timed" /\ pc' = "sensor") =>
       IF timed_move_motor_id # -1 /\ timed_move_motor_id' = -1
       THEN out' = <<T_MOVE_DONE \o PrintInt(timed_move_motor_id)>>
       ELSE Tagged(out', T_MOVE_DONE) = {}]_vars

\* C2: after MOVE_TIME:<id>:<dir>:<d> for motor 0 or 1, dispatched at clock
\* value s, and until another line is dispatched: while now - s < d the slot
\* is Active for <id> and the motor runs in direction <dir>; once
\* updateTimedMove has run with now - s >= d the motor is stopped (direction
\* pins low, PWM 0) and the slot is Idle.
C2_TimedMoveRunsThenStops ==
  (LastIsMove /\ LastId \in {0, 1}) =>
    /\ SinceLast < LastDuration =>
         /\ timed_move_motor_id = LastId
         /\ Running(LastId, LastFwd)
    /\ (SinceLast >= LastDuration /\ Ticked) =>
         /\ timed_move_motor_id = -1
         /\ Stopped(LastId)

\* A move of 300 ms on motor 0 has run its time and the tick at the deadline
\* or after it has run.
C2_Witness ==
  /\ LastIsMove
  /\ LastId = 0
  /\ LastDuration = 300
  /\ SinceLast >= LastDuration
  /\ pc = "sensor"
  /\ timed_move_motor_id = -1

\* C9: a MOVE_TIME dispatched while a move is Active leaves one Active
\* move, the newest: from the dispatch until the new deadline the slot holds
\* the new motor id, the new duration and the clock value at which the new
\* line was dispatched, whatever the old deadline was.
C9_NewestMoveIsActive ==
  (LastIsMove /\ last.prev # -1 /\ (Dispatched \/ SinceLast < LastDuration)) =>
    /\ timed_move_motor_id # -1
    /\ timed_move_motor_id = LastId
    /\ move_duration = LastDuration
    /\ move_timer_start = last.at

\* The bytes of `bytes` before its first newline.
RECURSIVE FirstLine(_)
FirstLine(bytes) ==
  IF bytes = <<>> \/ Head(bytes) = NL THEN <<>>
  ELSE <<Head(bytes)>> \o FirstLine(Tail(bytes))

\* C3: when handleSerialCommands runs with two or more complete lines
\* available and nothing buffered, the tokens it dispatches are those of the
\* first line alone: no byte of a following line is part of them.
C3_EachLineOnItsOwn ==
  [][(pc = "serial" /\ pc' = "timed" /\ inputString = <<>>
        /\ NewLines(rx) >= 2) =>
       last'.toks = Tokens(trim(FirstLine(rx)))]_vars

\* The number of ':'-separated fields each command with arguments reads.
FieldsRead(command) ==
  IF command \in {T_MOTOR_CMD, T_SET_SPEED, T_SET_OUTPUT, T_MOVE_DIST, T_TURN}
  THEN 3
  ELSE IF command = T_MOVE_TIME THEN 4
  ELSE IF command \in {T_CALIBRATE, T_TEST_MOTOR} THEN 2
  ELSE 0

\* The last line dispatched had fewer fields than its command reads.
LastIsShort ==
  /\ last.toks # <<>>
  /\ Len(last.toks) < FieldsRead(last.toks[1])

\* C4: a line with too few fields for its command leaves the firmware running
\* and defined: no read through a null pointer, no stop of the program, and
\* the input buffer cleared after the dispatch.
C4_ShortLineIsHarmless ==
  LastIsShort =>
    /\ ~ub
    /\ ~crashed
    /\ Dispatched => (inputString = <<>> /\ ~stringComplete)

\* The last line dispatched was SET_SPEED:<id>:<p> with p in 0..100.
LastIsSpeed ==
  /\ Len(last.toks) = 3
  /\ last.toks[1] = T_SET_SPEED
  /\ last.toks[2] \in {N0, N1, T_STAR}
  /\ atoi(last.toks[3]) \in 0..100
LastPercent == atoi(last.toks[3])
\* The motors that line addresses.
LastMotors == IF last.toks[2] = T_STAR THEN {0, 1} ELSE {atoi(last.toks[2])}

\* The last line dispatched was MOTOR_CMD:<id>:FWD or MOTOR_CMD:<id>:REV.
LastIsRun ==
  /\ Len(last.toks) = 3
  /\ last.toks[1] = T_MOTOR_CMD
  /\ last.toks[2] \in {N0, N1}
  /\ last.toks[3] \in {T_FWD, T_REV}

\* p percent of 255 with the fraction dropped, and to the nearest integer.
Truncated(p) == (p * 255) \div 100
Rounded(p) == (p * 255 + 50) \div 100
Clamped(v) == IF v < 0 THEN 0 ELSE IF v > 255 THEN 255 ELSE v

\* What the dispatch of a line does to the speeds, Pwm(p) being the speed for
\* p percent: SET_SPEED stores Pwm(p) for the motors it addresses and leaves
\* the other alone; running a motor writes its stored speed to its PWM pin;
\* and the stored speeds change in no other step.
SpeedRule(Pwm(_)) ==
     /\ (pc = "serial" /\ pc' = "timed" /\ Dispatched' /\ LastIsSpeed') =>
          \A i \in {0, 1} :
            motor_speeds'[i] = IF i \in LastMotors' THEN Pwm(LastPercent')
                               ELSE motor_speeds[i]
     /\ (pc = "serial" /\ pc' = "timed" /\ Dispatched' /\ LastIsRun') =>
          /\ motor_speeds' = motor_speeds
          /\ io'.pwm[EnPin(atoi(last'.toks[2]))]
               = motor_speeds[atoi(last'.toks[2])]
     /\ motor_speeds' # motor_speeds =>
          /\ pc = "serial" /\ pc' = "timed" /\ Dispatched'
          /\ last'.toks # <<>> /\ last'.toks[1] = T_SET_SPEED

\* C5 (as the code has it): SET_SPEED:<id>:<p> with id 0 or 1 and p in
\* 0..100 stores p * 255 / 100 with the fraction dropped, a value in 0..255,
\* as the speed of motor id, SET_SPEED:*:<p> stores it for both motors, and
\* that value is written to the motor's PWM pin the next time it is run.
C5_SpeedIsTruncated == [][SpeedRule(Truncated)]_vars

\* C5 (as stated): the stored speed is round(p * 255 / 100), clamped to 0..255.
RoundedAndClamped(p) == Clamped(Rounded(p))
C5_SpeedIsRounded == [][SpeedRule(RoundedAndClamped)]_vars

\* Motor 0 was run after SET_SPEED of 1 percent: its PWM pin carries 2.
C5_Witness ==
  /\ Dispatched
  /\ LastIsRun
  /\ last.toks[2] = N0
  /\ motor_speeds[0] = 2
  /\ io.pwm[ENA] = 2

\* C6: each motor's speed setting is in 0..255 in every reachable state.
C6_SpeedInRange == \A i \in {0, 1} : motor_speeds[i] \in 0..255

\* The number a string of decimal digits denotes.
RECURSIVE Decimal(_, _)
Decimal(s, acc) ==
  IF s = <<>> THEN acc ELSE Decimal(Tail(s), 10 * acc + DigitVal(Head(s)))

IsNumeral(s) == s # <<>> /\ \A i \in 1..Len(s) : IsDigit(s[i])

\* The last line dispatched was SET_CAL:<K>:<v>, v a positive integer.
LastIsSetCal ==
  /\ Len(last.toks) = 3
  /\ last.toks[1] = T_SET_CAL
  /\ last.toks[2] \in {T_MS_PER_MM, T_MS_PER_DEG}
  /\ IsNumeral(last.toks[3])
  /\ Decimal(last.toks[3], 0) > 0
LastValue == Decimal(last.toks[3], 0)

\* handleSerialCommands dispatches a line in this step.
Dispatches == pc = "serial" /\ pc' = "timed" /\ Dispatched'
\* setup() runs in this step: it prints the banner.
Boots == Tagged(out', T_STATUS) # {}

\* C7: SET_CAL:<K>:<v>, v a positive integer, replies SET_CAL:<K>:<v>, makes
\* v the value of K and leaves the other key alone; GET_CAL reports the two
\* values as they are; a value changes only by SET_CAL on its key or at boot;
\* and boot gives each positive value again.
C7_CalibrationRoundTrip ==
  [][/\ (Dispatches /\ LastIsSetCal') =>
          /\ out'[Len(out')]
               = Join(<<T_SET_CAL, last'.toks[2], PrintNat(LastValue')>>)
          /\ ms_per_mm' = IF last'.toks[2] = T_MS_PER_MM THEN LastValue'
                          ELSE ms_per_mm
          /\ ms_per_deg' = IF last'.toks[2] = T_MS_PER_DEG THEN LastValue'
                           ELSE ms_per_deg
     /\ (Dispatches /\ last'.toks = <<T_GET_CAL>>) =>
          /\ out'[Len(out')] = T_CAL_MM \o PrintInt(ms_per_mm) \o T_CAL_DEG
                                 \o PrintInt(ms_per_deg)
          /\ ms_per_mm' = ms_per_mm
          /\ ms_per_deg' = ms_per_deg
     /\ ms_per_mm' # ms_per_mm =>
          \/ Boots
          \/ Dispatches /\ Len(last'.toks) = 3 /\ last'.toks[1] = T_SET_CAL
               /\ last'.toks[2] = T_MS_PER_MM
     /\ ms_per_deg' # ms_per_deg =>
          \/ Boots
          \/ Dispatches /\ Len(last'.toks) = 3 /\ last'.toks[1] = T_SET_CAL
               /\ last'.toks[2] = T_MS_PER_DEG
     /\ Boots =>
          /\ ms_per_mm > 0 => ms_per_mm' = ms_per_mm
          /\ ms_per_deg > 0 => ms_per_deg' = ms_per_deg]_vars

\* C8: both calibration values are positive in every reachable state.
C8_CalibrationPositive == ms_per_mm > 0 /\ ms_per_deg > 0

\* updateSensorStates runs in this step with the poll interval elapsed.
Polls ==
  /\ pc = "sensor" /\ pc' = "event"
  /\ ToULong(clock - last_sensor_check) >= SENSOR_CHECK_INTERVAL

\* C10: while sensor_report_enabled is false no step prints a SENSOR_STATE
\* line, and a poll still records the level of each sensor as its last state.
C10_ReportingGate ==
  [][~sensor_report_enabled =>
       /\ Tagged(out', T_SENSOR_STATE) = {}
       /\ Polls => /\ sensor1_last_state' = level[SENSOR_PIN_1]
                   /\ sensor2_last_state' = level[SENSOR_PIN_2]]_vars

\* What a step leaves alone.
KeepsMotors == motor_speeds' = motor_speeds /\ io' = io
KeepsCal ==
  ms_per_mm' = ms_per_mm /\ ms_per_deg' = ms_per_deg /\ eeprom' = eeprom
KeepsSlot ==
  /\ move_timer_start' = move_timer_start
  /\ move_duration' = move_duration
  /\ timed_move_motor_id' = timed_move_motor_id
KeepsSensors ==
  /\ last_sensor_check' = last_sensor_check
  /\ sensor1_last_state' = sensor1_last_state
  /\ sensor2_last_state' = sensor2_last_state

\* The mode of a dispatched SENSOR_REPORT line.
ReportMode(toks) == stripTrailing(Tok(toks, 2))

\* C11: SENSOR_REPORT:ON and SENSOR_REPORT:OFF set the flag to true and to
\* false and print SENSOR_REPORT:<mode>, then ACK:SENSOR_REPORT; any other
\* mode, or none, prints NACK:SENSOR_REPORT:<mode> (<none> without a mode) and
\* leaves the flag alone; in every case nothing else of the state changes.
C11_SensorReportAckNack ==
  [][(Dispatches /\ last'.toks # <<>> /\ last'.toks[1] = T_SENSOR_REPORT) =>
       /\ KeepsMotors /\ KeepsCal /\ KeepsSlot /\ KeepsSensors
       /\ clock' = clock
       /\ IF ReportMode(last'.toks) \in {T_ON, T_OFF}
          THEN /\ sensor_report_enabled' = (ReportMode(last'.toks) = T_ON)
               /\ Tail(out') = << T_SENSOR_REPORT_ \o ReportMode(last'.toks),
                                  T_ACK \o T_SENSOR_REPORT >>
          ELSE /\ sensor_report_enabled' = sensor_report_enabled
               /\ Tail(out')
                    = << T_NACK \o (IF ReportMode(last'.toks) = NULL
                                    THEN T_NONE
                                    ELSE ReportMode(last'.toks)) >>]_vars

\* SENSOR_REPORT:MAYBE was refused with the flag off and motor 0 running.
C11_Witness ==
  /\ Dispatched
  /\ last.toks = <<T_SENSOR_REPORT, <<"M", "A", "Y", "B", "E">> >>
  /\ ~sensor_report_enabled
  /\ io.dig[IN1] = HIGH
  /\ Len(out) = 2

\* C12: PIN_TEST prints PIN_TEST:OK and leaves each motor's PWM output at
\* the value it had before the line was dispatched.
C12_PinTestRestoresPwm ==
  [][(Dispatches /\ last'.toks = <<T_PIN_TEST>>) =>
       /\ Tail(out') = <<T_PIN_TEST_OK>>
       /\ io'.pwm = io.pwm]_vars

\* The last line dispatched was MOTOR_CMD:<id>:<sub>, id 0 or 1, sub one of
\* FWD, REV, STOP.
LastIsMotorCmd ==
  /\ Len(last.toks) = 3
  /\ last.toks[1] = T_MOTOR_CMD
  /\ last.toks[2] \in {N0, N1}
  /\ last.toks[3] \in {T_FWD, T_REV, T_STOP}

\* C15: MOTOR_CMD:<id>:FWD drives motor id's direction pins high, low and
\* writes its stored speed to its PWM pin, REV drives them low, high with the
\* same PWM, STOP drives both low with PWM 0; the other motor's pins and PWM,
\* and the stored speeds, stay as they were.
C15_MotorCmdSetsPins ==
  [][(Dispatches /\ LastIsMotorCmd') =>
       LET id == atoi(last'.toks[2])
           sub == last'.toks[3]
       IN /\ io'.dig[DirPins(id)[1]] = (IF sub = T_FWD THEN HIGH ELSE LOW)
          /\ io'.dig[DirPins(id)[2]] = (IF sub = T_REV THEN HIGH ELSE LOW)
          /\ io'.pwm[EnPin(id)] = (IF sub = T_STOP THEN 0 ELSE motor_speeds[id])
          /\ io'.dig[DirPins(1 - id)[1]] = io.dig[DirPins(1 - id)[1]]
          /\ io'.dig[DirPins(1 - id)[2]] = io.dig[DirPins(1 - id)[2]]
          /\ io'.pwm[EnPin(1 - id)] = io.pwm[EnPin(1 - id)]
          /\ motor_speeds' = motor_speeds]_vars

\* Motor 1 was started forward at the default speed while motor 0 runs in
\* reverse at the speed set for it.
C15_Witness ==
  /\ Dispatched
  /\ last.toks = <<T_MOTOR_CMD, N1, T_FWD>>
  /\ Running(1, TRUE)
  /\ io.pwm[ENB] = 255
  /\ Running(0, FALSE)
  /\ io.pwm[ENA] = 127

\* The bytes of `bytes` other than newlines.
RECURSIVE WithoutNL(_)
WithoutNL(bytes) ==
  IF bytes = <<>> THEN <<>>
  ELSE IF Head(bytes) = NL THEN WithoutNL(Tail(bytes))
  ELSE <<Head(bytes)>> \o WithoutNL(Tail(bytes))

\* handleSerialCommands runs in this step.
Handles == pc = "serial" /\ pc' = "timed"

SensorLine(pin, lvl) ==
  T_SENSOR_STATE \o PrintInt(pin) \o <<COLON>> \o PrintInt(lvl)

\* What a poll prints for a pin read as lvl when its last state was prev.
Report(pin, lvl, prev) ==
  IF lvl # prev THEN <<SensorLine(pin, lvl)>> ELSE <<>>

\* updateSensorStates runs in this step.
SensorStep == pc = "sensor" /\ pc' = "event"

LastIsDistOrTurn ==
  /\ Len(last.toks) = 3
  /\ last.toks[1] \in {T_MOVE_DIST, T_TURN}
  /\ last.toks[2] \in {N0, N1}

\* Motor id is stopped on the pins p: direction pins low, PWM 0.
StoppedOn(p, id) ==
  /\ p.dig[DirPins(id)[1]] = LOW
  /\ p.dig[DirPins(id)[2]] = LOW
  /\ p.pwm[EnPin(id)] = 0

\* C16: the dispatch of MOVE_DIST:<id>:<mm> or TURN:<id>:<deg> leaves motor
\* id stopped and ends its output with the line MOVE_DONE:<id>.
C16_MoveDoneAfterDistAndTurn ==
  [][(Dispatches /\ LastIsDistOrTurn') =>
       /\ StoppedOn(io', atoi(last'.toks[2]))
       /\ out'[Len(out')] = T_MOVE_DONE \o last'.toks[2]]_vars

\* The commands whose handlers hold the loop in a delay.
BlockingCommands ==
  {T_PIN_TEST, T_MOVE_DIST, T_TURN, T_TEST_MOTOR, T_CALIBRATE}

\* The order in which one pass of loop() goes through its steps.
LoopOrder ==
  { <<"serial", "timed">>, <<"timed", "sensor">>, <<"sensor", "event">>,
    <<"event", "tick">>, <<"tick", "serial">> }

C17_StopKeepsSlot ==
  [][/\ (Dispatches /\ LastIsMotorCmd' /\ timed_move_motor_id # -1) =>
          /\ KeepsSlot
          /\ last'.toks[3] = T_STOP => StoppedOn(io', atoi(last'.toks[2]))
     /\ (pc = "timed" /\ pc' = "sensor" /\ timed_move_motor_id # -1) =>
          IF ToULong(clock - move_timer_start) >= move_duration
          THEN /\ timed_move_motor_id' = -1
               /\ StoppedOn(io', timed_move_motor_id)
          ELSE KeepsSlot /\ io' = io]_vars

\* Motor 0, stopped by hand and restarted in reverse during its timed move
\* started at 0 for 300 ms, was stopped by the check at 300.
C17_Witness ==
  /\ pc = "sensor"
  /\ last.toks = <<T_MOTOR_CMD, N0, T_REV>>
  /\ clock = 300
  /\ move_timer_start = 0
  /\ move_duration = 300
  /\ timed_move_motor_id = -1
  /\ Stopped(0)

\* Motor id runs: one direction pin high, the other low, PWM at its speed.
Runs(id) ==
  /\ io.dig[DirPins(id)[1]] # io.dig[DirPins(id)[2]]
  /\ io.pwm[EnPin(id)] = motor_speeds[id]

\* The last line dispatched was a MOVE_TIME for motor 0 or 1 that found the
\* slot Active for the other motor.
LastReplacedOther ==
  /\ LastIsMove
  /\ LastId \in {0, 1}
  /\ last.prev \in {0, 1}
  /\ last.prev # LastId

\* C18: after a MOVE_TIME for motor B dispatched while the slot was Active
\* for the other motor A, and until another line is dispatched, motor A runs
\* on in every state, through every timed-move check, and the slot is B's:
\* Active for B until the deadline, then Idle with motor B stopped.
C18_ReplacedMotorRunsOn ==
  LastReplacedOther =>
    /\ Runs(last.prev)
    /\ timed_move_motor_id \in {LastId, -1}
    /\ SinceLast < LastDuration => timed_move_motor_id = LastId
    /\ (SinceLast >= LastDuration /\ Ticked) =>
         /\ timed_move_motor_id = -1
         /\ Stopped(LastId)

\* The move of motor 1 that replaced the move of motor 0 has completed:
\* motor 1 is stopped, motor 0 still runs forward, the slot is Idle.
C18_Witness ==
  /\ LastReplacedOther
  /\ LastId = 1
  /\ pc = "tick"
  /\ SinceLast > LastDuration
  /\ timed_move_motor_id = -1
  /\ Stopped(1)
  /\ Running(0, TRUE)

\* The last value the clock takes before MaxClock.
LastTick == (MaxClock \div ClockStep) * ClockStep

\* A timed move is Active and its deadline is a time the clock reaches.
ActiveInTime ==
  /\ timed_move_motor_id # -1
  /\ move_timer_start + move_duration <= LastTick

\* The values the clock takes.
Ticks == { k * ClockStep : k \in 0..(MaxClock \div ClockStep) }

\* C20: with loop() running on and the clock advancing, every timed move that
\* is Active, started at t with a deadline the clock reaches, is followed by a
\* state in which the slot is Idle, unless a later MOVE_TIME has started the
\* timer anew; the host has nothing to send for it.
C20_TimedMoveCompletes ==
  \A t \in Ticks :
    (ActiveInTime /\ move_timer_start = t)
      ~> (timed_move_motor_id = -1 \/ move_timer_start # t)

\* A move of 300 ms is Active, its deadline 200 ms ahead.
C20_Witness ==
  /\ ActiveInTime
  /\ timed_move_motor_id = 0
  /\ move_duration = 300
  /\ clock = move_timer_start + 100
  /\ wire = <<>>
  /\ rx = <<>>

\* C21: under commands other than SET_OUTPUT, the two direction pins of a
\* motor are never HIGH together, neither between two commands nor after any
\* single write inside a handler.
C21_DirectionPinsNeverBothHigh == io.both = {}


\* The milliseconds from the first clock value followed before the wrap to c.
Unwrapped(c) == IF c >= LongMod - WrapLead THEN c - (LongMod - WrapLead)
                                           ELSE c + WrapLead

\* C22: with the clock followed through its wrap to 0, the check of an Active
\* move of duration d started at s completes it exactly when
\* (now - s) mod 2^w >= d, which is exactly when d milliseconds or more have
\* passed since s: no move is completed early, none is left Active at a
\* check at or past its deadline.
C22_DeadlineAcrossWrap ==
  [][(pc = "timed" /\ pc' = "sensor" /\ timed_move_motor_id # -1) =>
       /\ (timed_move_motor_id' = -1)
            <=> ((clock - move_timer_start) % LongMod >= move_duration)
       /\ (timed_move_motor_id' = -1)
            <=> (Unwrapped(clock) - Unwrapped(move_timer_start)
                   >= move_duration)]_vars

\* A move of 300 ms, started before the wrap, has just been completed by the
\* check at its deadline, after the wrap.
C22_Witness ==
  /\ pc = "sensor"
  /\ timed_move_motor_id = -1
  /\ move_duration = 300
  /\ move_timer_start >= LongMod - WrapLead
  /\ clock < move_timer_start
  /\ Unwrapped(clock) - Unwrapped(move_timer_start) = 300
=============================================================================
